---- MODULE Spec2Model ----
(***************************************************************************)
(* Retrieval-and-grounding engine of astro-luxe-guide:                     *)
(*   server/services/ragService.js  (class LightweightRAGService)          *)
(*   server/services/bnnService.js  (lines 672-1192: the module that owns   *)
(*                                   ragService and the global fallback)    *)
(*                                                                         *)
(* A text is a sequence of characters (one-character strings).  Node runs   *)
(* one handler at a time and switches handlers only at an await, so every   *)
(* action below is the code a handler runs between two awaits.              *)
(* Similarities are kept exactly, in units of 1/Scale.                      *)
(***************************************************************************)
EXTENDS Integers, Sequences, FiniteSets, TLC

\* ------------------------------------------------------------------ bounds
NumTasks == 2          \* handlers that may be in flight together
MaxCalls == 3          \* calls issued in one run

\* ------------------------------------------------------- string primitives
Whitespace == {" ", "\n"}

Min(a, b) == IF a < b THEN a ELSE b
Max(a, b) == IF a > b THEN a ELSE b
Clamp(n, len) == Max(0, Min(n, len))

LowerChar(c) ==
  CASE c = "C" -> "c"
    [] c = "S" -> "s"
    [] OTHER -> c

\* String.prototype.toLowerCase
toLowerCase(s) == [i \in 1..Len(s) |-> LowerChar(s[i])]

\* String.prototype.substring(a, b), 0-based, end exclusive
substring(s, a, b) ==
  LET x  == Clamp(a, Len(s))
      y  == Clamp(b, Len(s))
      lo == Min(x, y)
      hi == Max(x, y)
  IN  SubSeq(s, lo + 1, hi)

\* String.prototype.trim
trim(s) ==
  LET first == CHOOSE i \in 1..Len(s) :
                 s[i] \notin Whitespace /\ \A j \in 1..(i - 1) : s[j] \in Whitespace
      last  == CHOOSE i \in 1..Len(s) :
                 s[i] \notin Whitespace /\ \A j \in (i + 1)..Len(s) : s[j] \in Whitespace
  IN  IF \A i \in 1..Len(s) : s[i] \in Whitespace THEN <<>>
      ELSE SubSeq(s, first, last)

\* String.prototype.includes
includes(s, t) ==
  \E i \in 0..(Len(s) - Len(t)) : \A j \in 1..Len(t) : s[i + j] = t[j]

\* String.prototype.indexOf(character, fromIndex), 0-based, -1 when absent
indexOf(s, c, from) ==
  LET hits == {i \in Clamp(from, Len(s))..(Len(s) - 1) : s[i + 1] = c}
  IN  IF hits = {} THEN -1 ELSE CHOOSE i \in hits : \A j \in hits : i <= j

RECURSIVE SplitFrom(_, _, _)
SplitFrom(s, sep, from) ==
  LET k == indexOf(s, sep, from)
  IN  IF k = -1 THEN <<substring(s, from, Len(s))>>
      ELSE <<substring(s, from, k)>> \o SplitFrom(s, sep, k + 1)

\* String.prototype.split(' ')
split(s, sep) == SplitFrom(s, sep, 0)

RECURSIVE join(_, _)
\* Array.prototype.join
join(list, sep) ==
  IF Len(list) = 0 THEN <<>>
  ELSE IF Len(list) = 1 THEN list[1]
  ELSE list[1] \o sep \o join(Tail(list), sep)

\* Array.prototype.slice(0, n)
slice(list, n) == SubSeq(list, 1, Min(Len(list), Max(n, 0)))

\* ------------------------------------------------------------ the inputs
RECURSIVE Rep(_, _)
Rep(w, n) == IF n = 0 THEN <<>> ELSE w \o Rep(w, n - 1)

wCareer  == <<"c","a","r","e","e","r">>
wSaturn  == <<"s","a","t","u","r","n">>
wZzz     == <<"z","z","z">>
wChapter == <<"C","h","a","p","t","e","r">>
wLorem   == <<"l","o","r","e","m"," ">>
wIpsum   == <<"i","p","s","u","m"," ">>
Blanks(n) == [i \in 1..n |-> " "]

\* 508 characters as pdftotext lays a page out: 400 blanks of margin, a
\* sentence about "career" that ends at offset 457, a line about "saturn".
\* Two chunks: the sentence, and the sentence with the line that follows it
TextA == Blanks(400)
         \o wCareer \o <<" ">> \o Rep(wLorem, 8) \o <<"o","k",".">>
         \o <<" ">> \o wSaturn \o <<" ">> \o Rep(wIpsum, 7)
\* one chunk, which the quality filter of searchKnowledge rejects ('Chapter')
TextB == wChapter \o <<" ">> \o wZzz \o <<" ">> \o Rep(wIpsum, 8)
\* only boilerplate: text is extracted, segmentation keeps nothing
TextZ == <<"(c)"," ","2","0","2","4"," ">> \o Rep(wIpsum, 6)

NoFile == "ENOENT"
DocIds == {"A", "B", "Z", "E", "N"}
\* what `pdftotext <path> -` (or the readFileSync fallback) yields for a path
DocText(d) ==
  CASE d = "A" -> TextA
    [] d = "B" -> TextB
    [] d = "Z" -> TextZ
    [] d = "E" -> <<" ", "\n">>
    [] OTHER   -> NoFile

Queries == { wCareer, <<"C","a","r","e","e","r"," ">>, wZzz }
TopKs   == {1, 5}

\* ------------------------------------------------------- embedding model
\* The feature-extraction pipeline is a fixed function of the text.  Vectors
\* all have norm 25 (the pipeline normalises; cosineSimilarity divides the
\* norms out again).
embedder(text) ==
  LET t == toLowerCase(text)
  IN  IF includes(t, wSaturn) THEN <<7, 24>>
      ELSE IF includes(t, wCareer) THEN <<24, 7>>
      ELSE IF includes(t, wZzz) THEN <<0, 25>>
      ELSE <<15, 20>>

\* ----------------------------------------------------------- ragService.js
Scale == 100 * 100     \* a similarity s is kept as the integer s * Scale

ISqrt(n) == CHOOSE r \in 0..n : r * r <= n /\ n < (r + 1) * (r + 1)

RECURSIVE SumTo(_, _)
SumTo(f, n) == IF n = 0 THEN 0 ELSE f[n] + SumTo(f, n - 1)

cosineSimilarity(vecA, vecB) ==
  IF Len(vecA) # Len(vecB) THEN 0
  ELSE
    LET dotProduct == SumTo([i \in 1..Len(vecA) |-> vecA[i] * vecB[i]], Len(vecA))
        normA == ISqrt(SumTo([i \in 1..Len(vecA) |-> vecA[i] * vecA[i]], Len(vecA)))
        normB == ISqrt(SumTo([i \in 1..Len(vecB) |-> vecB[i] * vecB[i]], Len(vecB)))
    IN  IF normA = 0 \/ normB = 0 THEN 0
        ELSE (dotProduct * Scale) \div (normA * normB)

SplitMaxChunk == 500   \* processPDF: splitIntoChunks(pdfText, 500, 100)
SplitOverlap  == 100
SentenceLook  == 50    \* indexOf('.', end - 50), nextPeriod < end + 50
MinChunkLen   == 30    \* chunk.length > 30
MaxChunkLen   == 1000  \* chunk.length < 1000

SplitBoilerplate ==
  { <<"(c)">>, <<"I","S","B","N">>,
    <<"P","u","b","l","i","s","h","e","r",":">>,
    <<"N","o","t","i","o","n"," ","P","r","e","s","s">>,
    <<"V","I","R","G","O",".">>, <<"I","N","D","E","X">> }

\* where the window that starts at `start` is cut
SplitEnd(text, start, maxChunkSize) ==
  LET end0        == start + maxChunkSize
      nextPeriod  == indexOf(text, ".", end0 - SentenceLook)
      nextNewline == indexOf(text, "\n", end0 - SentenceLook)
  IN  IF end0 < Len(text)
      THEN IF nextPeriod > start /\ nextPeriod < end0 + SentenceLook
           THEN nextPeriod + 1
           ELSE IF nextNewline > start /\ nextNewline < end0 + SentenceLook
                THEN nextNewline + 1
                ELSE end0
      ELSE end0

\* the test that decides whether a window is pushed
SplitKeeps(chunk) ==
  /\ Len(chunk) > MinChunkLen /\ Len(chunk) < MaxChunkLen
  /\ \A b \in SplitBoilerplate : ~includes(chunk, b)

RECURSIVE SplitLoop(_, _, _, _, _, _)
\* the while loop; `fuel` iterations are run, after which the loop is reported
\* as still running
SplitLoop(text, maxChunkSize, overlap, start, pushed, fuel) ==
  IF ~(start < Len(text)) THEN [chunks |-> pushed, done |-> TRUE]
  ELSE IF fuel = 0 THEN [chunks |-> pushed, done |-> FALSE]
  ELSE
    LET end   == SplitEnd(text, start, maxChunkSize)
        chunk == trim(substring(text, start, end))
    IN  SplitLoop(text, maxChunkSize, overlap, end - overlap,
                  IF SplitKeeps(chunk) THEN Append(pushed, chunk) ELSE pushed,
                  fuel - 1)

splitIntoChunks(text, maxChunkSize, overlap) ==
  SplitLoop(text, maxChunkSize, overlap, 0, <<>>, Len(text) + 1).chunks

BatchSize == 10        \* createEmbeddings: const batchSize = 10

\* the inner loop stops one short: `j < batch.length - 1`
BatchEmbeddingsShort(texts, i) ==
  LET batch == SubSeq(texts, i + 1, Min(i + BatchSize, Len(texts)))
  IN  [j \in 1..(Len(batch) - 1) |-> embedder(batch[j])]

\* every batch is sliced from the beginning of the list
BatchEmbeddingsFromStart(texts, i) ==
  LET batch == SubSeq(texts, 1, Min(BatchSize, Len(texts)))
  IN  [j \in 1..Len(batch) |-> embedder(batch[j])]

\* the embeddings one `await this.embedder(batch, ...)` adds
BatchEmbeddings(texts, i) ==
  LET batch == SubSeq(texts, i + 1, Min(i + BatchSize, Len(texts)))
  IN  [j \in 1..Len(batch) |-> embedder(batch[j])]

SimFloor == (2 * Scale) \div 10      \* similarity > 0.2
SimKeep  == (3 * Scale) \div 10      \* item.similarity > 0.3

RECURSIVE InsertDesc(_, _)
\* position of `item` among entries already ordered: after every entry that
\* is not smaller (Array.prototype.sort is stable)
InsertDesc(sorted, item) ==
  IF sorted = <<>> THEN <<item>>
  ELSE IF Head(sorted).similarity >= item.similarity
       THEN <<Head(sorted)>> \o InsertDesc(Tail(sorted), item)
       ELSE <<item>> \o sorted

RECURSIVE SortDesc(_)
\* similarities.sort((a, b) => b.similarity - a.similarity)
SortDesc(list) ==
  IF list = <<>> THEN <<>>
  ELSE InsertDesc(SortDesc(SubSeq(list, 1, Len(list) - 1)), list[Len(list)])

\* findSimilarChunks of the variant without the early floor, after the query
\* embedding has arrived
TopChunksUnfiltered(queryVector, chunkList, embeddingList, topK) ==
  LET similarities == [i \in 1..Len(embeddingList) |->
                [index      |-> i - 1,
                 similarity |-> cosineSimilarity(queryVector, embeddingList[i]),
                 chunk      |-> IF i <= Len(chunkList) THEN chunkList[i]
                                ELSE <<"undefined">>]]
  IN  slice(SortDesc(similarities), topK)

\* findSimilarChunks without the sort
TopChunksUnsorted(queryVector, chunkList, embeddingList, topK) ==
  LET all == [i \in 1..Len(embeddingList) |->
                [index      |-> i - 1,
                 similarity |-> cosineSimilarity(queryVector, embeddingList[i]),
                 chunk      |-> IF i <= Len(chunkList) THEN chunkList[i]
                                ELSE <<"undefined">>]]
      similarities == SelectSeq(all, LAMBDA e : e.similarity > SimFloor)
  IN  slice(similarities, topK)

\* findSimilarChunks with the floor of the quality filter (0.3)
TopChunksHighFloor(queryVector, chunkList, embeddingList, topK) ==
  LET all == [i \in 1..Len(embeddingList) |->
                [index      |-> i - 1,
                 similarity |-> cosineSimilarity(queryVector, embeddingList[i]),
                 chunk      |-> IF i <= Len(chunkList) THEN chunkList[i]
                                ELSE <<"undefined">>]]
      similarities == SelectSeq(all, LAMBDA e : e.similarity > (3 * Scale) \div 10)
  IN  slice(SortDesc(similarities), topK)

\* findSimilarChunks after the query embedding has arrived
TopChunks(queryVector, chunkList, embeddingList, topK) ==
  LET all == [i \in 1..Len(embeddingList) |->
                [index      |-> i - 1,
                 similarity |-> cosineSimilarity(queryVector, embeddingList[i]),
                 chunk      |-> IF i <= Len(chunkList) THEN chunkList[i]
                                ELSE <<"undefined">>]]
      similarities == SelectSeq(all, LAMBDA e : e.similarity > SimFloor)
  IN  slice(SortDesc(similarities), topK)

SearchBoilerplate ==
  { <<"(c)">>, <<"I","S","B","N">>,
    <<"P","u","b","l","i","s","h","e","r",":">>,
    <<"V","I","R","G","O",".">>, <<"I","N","D","E","X">>,
    <<"C","h","a","p","t","e","r">> }
SearchMinLen == 50     \* chunk.length < 50
FinalCount   == 3      \* relevantChunks.slice(0, 3)

hasQueryTerms(chunk, query) ==
  LET lowerChunk == toLowerCase(chunk)
      terms      == split(toLowerCase(query), " ")
  IN  \E k \in 1..Len(terms) : includes(lowerChunk, terms[k]) /\ Len(terms[k]) > 2

isLowQuality(chunk) ==
  \/ \E b \in SearchBoilerplate : includes(chunk, b)
  \/ Len(chunk) < SearchMinLen

\* relevance / queryTerms.length, kept as the fraction matched / total
calculateRelevance(chunk, query) ==
  LET queryTerms == SelectSeq(split(toLowerCase(query), " "), LAMBDA term : Len(term) > 2)
      hit == {k \in 1..Len(queryTerms) : includes(toLowerCase(chunk), queryTerms[k])}
  IN  [matched |-> Cardinality(hit), total |-> Len(queryTerms)]

\* the filter with the term test on the chunk as it is written
FinalChunksCaseSensitive(similarChunks, query) ==
  LET relevantChunks ==
        SelectSeq(similarChunks, LAMBDA item :
          ~isLowQuality(item.chunk)
          /\ ((\E k \in 1..Len(split(toLowerCase(query), " ")) :
                 /\ includes(item.chunk, split(toLowerCase(query), " ")[k])
                 /\ Len(split(toLowerCase(query), " ")[k]) > 2)
              \/ item.similarity > SimKeep))
      top == slice(relevantChunks, FinalCount)
  IN  [k \in 1..Len(top) |->
         [content    |-> top[k].chunk,
          similarity |-> top[k].similarity,
          relevance  |-> calculateRelevance(top[k].chunk, query)]]

\* searchKnowledge after findSimilarChunks has returned
FinalChunks(similarChunks, query) ==
  LET relevantChunks ==
        SelectSeq(similarChunks, LAMBDA item :
          ~isLowQuality(item.chunk)
          /\ (hasQueryTerms(item.chunk, query) \/ item.similarity > SimKeep))
      top == slice(relevantChunks, FinalCount)
  IN  [k \in 1..Len(top) |->
         [content    |-> top[k].chunk,
          similarity |-> top[k].similarity,
          relevance  |-> calculateRelevance(top[k].chunk, query)]]

\* const cacheKey = query.toLowerCase().trim()
CacheKey(query) == trim(toLowerCase(query))

\* ----------------------------------------------------- bnnService.js tiers
ScanMax == 10          \* .slice(0, 10)
ScanSimilarity == Scale \div 2       \* topSimilarity: 0.5
ContextSeparator == <<"\n", "\n", "-", "-", "-", "\n", "\n">>
BasicContext == <<"B","a","s","i","c"," ","B","N","N"," ","a","s","t","r","o","l","o","g","y",
                  " ","k","n","o","w","l","e","d","g","e">>

\* the keyword scan over global.bnnChunks
ScanChunks(globalChunks, query) ==
  LET queryTerms == split(toLowerCase(query), " ")
  IN  slice(SelectSeq(globalChunks, LAMBDA chunk :
              \E k \in 1..Len(queryTerms) : includes(toLowerCase(chunk), queryTerms[k])),
            ScanMax)

\* the record searchBNNKnowledge returns; `tiers` lists the tiers that were
\* evaluated, in order, and scanHits what the keyword scan matched
RagTier(relevantChunks) ==
  [source |-> "rag_service",
   chunks |-> Len(relevantChunks),
   context |-> join([k \in 1..Len(relevantChunks) |-> relevantChunks[k].content],
                    ContextSeparator),
   topSimilarity |-> IF Len(relevantChunks) > 0 THEN relevantChunks[1].similarity ELSE 0,
   tiers |-> <<"rag_service">>, scanHits |-> 0]

ScanTier(scanned, before) ==
  [source |-> "global_chunks",
   chunks |-> Len(scanned),
   context |-> join(scanned, ContextSeparator),
   topSimilarity |-> ScanSimilarity,
   tiers |-> Append(before, "global_chunks"), scanHits |-> Len(scanned)]

BasicTier(before, hits) ==
  [source |-> "basic_knowledge", chunks |-> 0, context |-> BasicContext,
   topSimilarity |-> 0, tiers |-> Append(before, "basic_knowledge"), scanHits |-> hits]

\* the keyword scan is looked at before the result of the indexed search
searchBNNKnowledgeTailScanFirst(query, ragThrew, relevantChunks, globalChunks) ==
  LET scanned == ScanChunks(globalChunks, query)
  IN  IF Len(globalChunks) > 0 /\ Len(scanned) > 0
      THEN ScanTier(scanned, <<>>)
      ELSE IF ~ragThrew /\ Len(relevantChunks) > 0
      THEN [RagTier(relevantChunks) EXCEPT !.tiers = <<"global_chunks", "rag_service">>]
      ELSE BasicTier(<<"global_chunks", "rag_service">>, 0)

\* `if (relevantChunks)` without the length test
searchBNNKnowledgeTailNoLength(query, ragThrew, relevantChunks, globalChunks) ==
  LET scanned == ScanChunks(globalChunks, query)
  IN  IF ~ragThrew
      THEN RagTier(relevantChunks)
      ELSE IF Len(globalChunks) > 0
      THEN IF Len(scanned) > 0
           THEN ScanTier(scanned, <<"rag_service">>)
           ELSE BasicTier(<<"rag_service", "global_chunks">>, 0)
      ELSE BasicTier(<<"rag_service">>, 0)

\* searchBNNKnowledge once ragService.searchKnowledge has settled: ragThrew
\* says that it rejected, relevantChunks is what it returned otherwise
searchBNNKnowledgeTail(query, ragThrew, relevantChunks, globalChunks) ==
  LET scanned == ScanChunks(globalChunks, query)
  IN  IF ~ragThrew /\ Len(relevantChunks) > 0
      THEN RagTier(relevantChunks)
      ELSE IF Len(globalChunks) > 0
      THEN IF Len(scanned) > 0
           THEN ScanTier(scanned, <<"rag_service">>)
           ELSE BasicTier(<<"rag_service", "global_chunks">>, 0)
      ELSE BasicTier(<<"rag_service">>, 0)

\* ------------------------------------------------------------------- state
VARIABLES
  isInitialized,        \* ragService.isInitialized
  embedderLoaded,       \* ragService.embedder !== null
  chunks,               \* ragService.chunks
  embeddings,           \* ragService.embeddings
  cache,                \* ragService.cache: normalised query -> result list
  bnnChunks,            \* global.bnnChunks
  bnnEmbeddings,        \* global.bnnEmbeddings
  bnnPDFProcessed,
  bnnProcessingStatus,
  bnnDoc,               \* the document stored at the fixed BNN path
  task,                 \* the handlers: operation, position, locals
  calls,                \* calls issued so far
  corpusDoc,            \* history: the document the stored corpus was built from
  cacheSrc,             \* history: per cache entry, the corpus it was computed from
  readyOnce             \* history: a loadBNNPDF call has returned 'processed'

vars == <<isInitialized, embedderLoaded, chunks, embeddings, cache, bnnChunks,
          bnnEmbeddings, bnnPDFProcessed, bnnProcessingStatus, bnnDoc, task,
          calls, corpusDoc, cacheSrc, readyOnce>>

ragVars == <<isInitialized, embedderLoaded, chunks, embeddings, cache>>
bnnVars == <<bnnChunks, bnnEmbeddings, bnnPDFProcessed, bnnProcessingStatus>>

Tasks == 1..NumTasks
EmptyMap == [k \in {} |-> <<>>]
MapSet(m, k, v) == [x \in (DOMAIN m) \cup {k} |-> IF x = k THEN v ELSE m[x]]

NoResult == [kind |-> "none"]
Fresh ==
  [op |-> "none", pc |-> "idle", query |-> <<>>, topK |-> 0, path |-> "",
   flag |-> FALSE, texts |-> <<>>, embs |-> <<>>, i |-> 0, textLen |-> 0,
   sChunks |-> <<>>, sEmbeddings |-> <<>>, sDoc |-> "", similar |-> <<>>,
   ragThrew |-> FALSE, rag |-> <<>>, hit |-> FALSE, late |-> FALSE,
   outer |-> "", ctx |-> NoResult, prompt |-> <<>>,
   queryVector |-> <<>>, plain |-> <<>>,
   text |-> <<>>, maxChunkSize |-> 0, overlap |-> 0, start |-> 0, windows |-> <<>>,
   result |-> NoResult, err |-> ""]

InitialStatus ==
  [status |-> "not_processed", chunks |-> 0, embeddings |-> 0,
   totalTextLength |-> 0, error |-> ""]

Init ==
  /\ isInitialized = FALSE
  /\ embedderLoaded = FALSE
  /\ chunks = <<>>
  /\ embeddings = <<>>
  /\ cache = EmptyMap
  /\ bnnChunks = <<>>
  /\ bnnEmbeddings = <<>>
  /\ bnnPDFProcessed = FALSE
  /\ bnnProcessingStatus = InitialStatus
  /\ bnnDoc \in DocIds
  /\ task = [t \in Tasks |-> Fresh]
  /\ calls = 0
  /\ corpusDoc = ""
  /\ cacheSrc = EmptyMap
  /\ readyOnce = FALSE

\* t is the first handler that is not running
Idle(t) ==
  /\ task[t].pc \in {"idle", "done"}
  /\ \A u \in Tasks : u < t => task[u].pc \notin {"idle", "done"}

Free(t) ==
  /\ Idle(t)
  /\ calls < MaxCalls

\* handler t moves on; what an earlier handler returned is visible in the
\* state that follows its return and is dropped with the next step
Set(t, rec) ==
  task' = [u \in Tasks |-> IF u = t THEN rec
                           ELSE IF task[u].pc = "done" THEN Fresh ELSE task[u]]

\* a handler that has returned keeps only what it returned
Returns(rec, result, err) ==
  [Fresh EXCEPT !.op = rec.op, !.pc = "done", !.query = rec.query,
                !.topK = rec.topK, !.path = rec.path, !.late = rec.late,
                !.hit = rec.hit, !.ragThrew = rec.ragThrew, !.rag = rec.rag,
                !.sDoc = rec.sDoc, !.ctx = rec.ctx, !.prompt = rec.prompt,
                !.result = result, !.err = err]

\* generateBNNReading resumes when the call it awaits has settled: a
\* rejection goes through its catch block, which rethrows; after loadBNNPDF
\* it goes on to searchBNNKnowledge; after searchBNNKnowledge it builds the
\* prompts from bnnContext.context and awaits the completion
generateBNNReadingResume(rec, result, err) ==
  IF err # ""
  THEN Returns([rec EXCEPT !.op = "generate"], NoResult, err)
  ELSE IF rec.op = "load"
  THEN [Fresh EXCEPT !.op = "generate", !.outer = "generate", !.pc = "gen2",
                     !.query = rec.query]
  ELSE [Fresh EXCEPT !.op = "generate", !.outer = "generate", !.pc = "gen3",
                     !.query = rec.query, !.ctx = result, !.prompt = result.context]

\* an async function settles: its caller is the event loop, or
\* generateBNNReading awaiting it
Done(rec, result, err) ==
  IF rec.outer = "generate"
  THEN generateBNNReadingResume(rec, result, err)
  ELSE Returns(rec, result, err)

Processing == {"load", "rprocess"}
Searching  == {"bsearch", "rsearch"}

\* searchBNNKnowledge without the inner try/catch: the outer catch rethrows
ragErrorRethrown(rec, msg) == Done(rec, NoResult, msg)

\* searchBNNKnowledge: `catch (ragError)` around ragService.searchKnowledge
ragErrorCaught(rec, msg) == [rec EXCEPT !.pc = "tier", !.ragThrew = TRUE]

\* where a handler goes when ragService rejects
Thrown(rec, msg) ==
  CASE rec.op = "load"    -> [rec EXCEPT !.pc = "catch", !.err = msg]
    [] rec.op = "bsearch" -> ragErrorCaught(rec, msg)
    [] OTHER              -> Done(rec, NoResult, msg)

\* createEmbeddings(texts) up to its first await
createEmbeddingsStart(rec, texts) ==
  [rec EXCEPT !.texts = texts, !.embs = <<>>, !.i = 0,
              !.pc = IF ~isInitialized THEN "init"
                     ELSE IF Len(texts) > 0 THEN "embed" ELSE "store"]

\* the documents from which text is extracted, and
\* splitIntoChunks(pdfText, 500, 100) tabulated for each of them
TextDocs == {d \in DocIds : DocText(d) # NoFile /\ Len(trim(DocText(d))) > 0}
CorpusChunks ==
  [d \in TextDocs |-> splitIntoChunks(DocText(d), SplitMaxChunk, SplitOverlap)] @@ EmptyMap

\* ragService.processPDF(pdfPath) up to its first await
ragProcessPDFStart(rec, pdfPath) ==
  LET pdfText == DocText(pdfPath)
  IN  IF pdfText = NoFile THEN Thrown(rec, "ENOENT")
      ELSE IF Len(trim(pdfText)) = 0
      THEN Thrown(rec, "Failed to extract text from PDF")
      ELSE createEmbeddingsStart([rec EXCEPT !.path = pdfPath, !.textLen = Len(pdfText)],
                                 CorpusChunks[pdfPath])

\* searchKnowledge(query, topK) up to its first await
searchKnowledgeStart(rec, query, topK) ==
  LET cacheKey == CacheKey(query)
  IN  IF Len(chunks) = 0
      THEN Thrown(rec, "No PDF chunks available. Please process a PDF first.")
      ELSE IF cacheKey \in DOMAIN cache
      THEN IF rec.op = "bsearch"
           THEN [rec EXCEPT !.pc = "tier", !.rag = cache[cacheKey], !.hit = TRUE,
                            !.sDoc = cacheSrc[cacheKey]]
           ELSE Done([rec EXCEPT !.rag = cache[cacheKey], !.hit = TRUE,
                                 !.sDoc = cacheSrc[cacheKey]],
                     [kind |-> "list", list |-> cache[cacheKey]], "")
      ELSE [rec EXCEPT !.sChunks = chunks, !.sEmbeddings = embeddings,
                       !.sDoc = corpusDoc,
                       !.pc = IF ~isInitialized THEN "init" ELSE "qembed"]

AfterInit(rec) ==
  IF rec.op \in Processing
  THEN (IF Len(rec.texts) > 0 THEN "embed" ELSE "store")
  ELSE "qembed"

\* bnnProcessingStatus.status = 'error'; bnnProcessingStatus.error = error.message
ErrorStatus(msg) == [bnnProcessingStatus EXCEPT !.status = "error", !.error = msg]

SearchTopK == 5        \* ragService.searchKnowledge(query, 5)

\* ------------------------------------------------ bnnService.js: ingestion
\* loadBNNPDF is called: isBNNPDFProcessed() runs, its result is awaited
CallLoadBNNPDF(t) ==
  /\ Free(t)
  /\ Set(t, [Fresh EXCEPT !.op = "load", !.pc = "load1", !.late = readyOnce,
                          !.flag = (Len(chunks) > 0 \/ Len(bnnChunks) > 0)])
  /\ calls' = calls + 1
  /\ UNCHANGED <<ragVars, bnnVars, bnnDoc, corpusDoc, cacheSrc, readyOnce>>

\* loadBNNPDF after the check: the early return, or processPDF() up to
\* `await import('child_process')`
LoadAfterCheck(t) ==
  /\ task[t].pc = "load1"
  /\ IF task[t].flag
     THEN /\ Set(t, Done(task[t], [kind |-> "status", status |-> "already_processed",
                                   chunks |-> Len(chunks), embeddings |-> Len(embeddings)], ""))
          /\ UNCHANGED bnnProcessingStatus
     ELSE IF DocText(bnnDoc) = NoFile
     THEN /\ Set(t, Done([task[t] EXCEPT !.sDoc = corpusDoc], NoResult, "BNN PDF not found"))
          /\ bnnProcessingStatus' = ErrorStatus("BNN PDF not found")
     ELSE /\ Set(t, [task[t] EXCEPT !.pc = "load2", !.sDoc = corpusDoc])
          /\ UNCHANGED bnnProcessingStatus
  /\ UNCHANGED <<ragVars, bnnChunks, bnnEmbeddings, bnnPDFProcessed, bnnDoc, calls,
                 corpusDoc, cacheSrc, readyOnce>>

\* processPDF() from the text extraction to the first await inside
\* ragService.processPDF
BnnExtract(t) ==
  /\ task[t].pc = "load2"
  /\ IF Len(trim(DocText(bnnDoc))) = 0
     THEN /\ Set(t, Done(task[t], NoResult, "Failed to extract text from PDF"))
          /\ bnnProcessingStatus' = ErrorStatus("Failed to extract text from PDF")
     ELSE /\ Set(t, ragProcessPDFStart(task[t], bnnDoc))
          /\ UNCHANGED bnnProcessingStatus
  /\ UNCHANGED <<ragVars, bnnChunks, bnnEmbeddings, bnnPDFProcessed, bnnDoc, calls,
                 corpusDoc, cacheSrc, readyOnce>>

\* processPDF() without the two assignments to global.bnnChunks and
\* global.bnnEmbeddings
PublishStatusOnly(t) ==
  /\ task[t].pc = "publish"
  /\ bnnPDFProcessed' = TRUE
  /\ bnnProcessingStatus' =
       [status |-> "processed", chunks |-> task[t].result.chunks,
        embeddings |-> task[t].result.embeddings,
        totalTextLength |-> task[t].result.totalTextLength, error |-> ""]
  /\ Set(t, Done(task[t], [kind |-> "status", status |-> "processed",
                           chunks |-> task[t].result.chunks,
                           embeddings |-> task[t].result.embeddings], ""))
  /\ readyOnce' = TRUE
  /\ UNCHANGED <<ragVars, bnnChunks, bnnEmbeddings, bnnDoc, calls, corpusDoc, cacheSrc>>

\* processPDF() after `await ragService.processPDF(pdfPath)`
Publish(t) ==
  /\ task[t].pc = "publish"
  /\ bnnChunks' = chunks
  /\ bnnEmbeddings' = embeddings
  /\ bnnPDFProcessed' = TRUE
  /\ bnnProcessingStatus' =
       [status |-> "processed", chunks |-> task[t].result.chunks,
        embeddings |-> task[t].result.embeddings,
        totalTextLength |-> task[t].result.totalTextLength, error |-> ""]
  /\ Set(t, Done(task[t], [kind |-> "status", status |-> "processed",
                           chunks |-> task[t].result.chunks,
                           embeddings |-> task[t].result.embeddings], ""))
  /\ readyOnce' = TRUE
  /\ UNCHANGED <<ragVars, bnnDoc, calls, corpusDoc, cacheSrc>>

\* the catch block of processPDF()
ProcessPDFCatch(t) ==
  /\ task[t].pc = "catch"
  /\ bnnProcessingStatus' = ErrorStatus(task[t].err)
  /\ Set(t, Done(task[t], NoResult, task[t].err))
  /\ UNCHANGED <<ragVars, bnnChunks, bnnEmbeddings, bnnPDFProcessed, bnnDoc, calls,
                 corpusDoc, cacheSrc, readyOnce>>

\* ------------------------------------------------------- ragService.js steps
\* initialize(): `await pipeline(...)` settles
InitializeDone(t, ok) ==
  /\ task[t].pc = "init"
  /\ IF ok
     THEN /\ isInitialized' = TRUE
          /\ embedderLoaded' = TRUE
          /\ Set(t, [task[t] EXCEPT !.pc = AfterInit(task[t])])
     ELSE /\ Set(t, Thrown(task[t], "pipeline failed"))
          /\ UNCHANGED <<isInitialized, embedderLoaded>>
  /\ UNCHANGED <<chunks, embeddings, cache, bnnVars, bnnDoc, calls,
                 corpusDoc, cacheSrc, readyOnce>>

\* createEmbeddings: `await this.embedder(batch, ...)` settles
EmbedBatch(t, ok) ==
  /\ task[t].pc = "embed"
  /\ IF ok
     THEN Set(t, [task[t] EXCEPT
                    !.embs = @ \o BatchEmbeddings(task[t].texts, task[t].i),
                    !.i = @ + BatchSize,
                    !.pc = IF task[t].i + BatchSize < Len(task[t].texts)
                           THEN "embed" ELSE "store"])
     ELSE Set(t, Thrown(task[t], "embedder failed"))
  /\ UNCHANGED <<ragVars, bnnVars, bnnDoc, calls, corpusDoc, cacheSrc,
                 readyOnce>>

\* ragService.processPDF after `await this.createEmbeddings(chunks)`
StoreCorpus(t) ==
  /\ task[t].pc = "store"
  /\ chunks' = task[t].texts
  /\ embeddings' = task[t].embs
  /\ corpusDoc' = task[t].path
  /\ LET result == [kind |-> "counts", chunks |-> Len(task[t].texts),
                    embeddings |-> Len(task[t].embs),
                    totalTextLength |-> task[t].textLen]
     IN  Set(t, IF task[t].op = "load"
                THEN [task[t] EXCEPT !.pc = "publish", !.result = result,
                                     !.texts = <<>>, !.embs = <<>>]
                ELSE Done(task[t], result, ""))
  /\ UNCHANGED <<isInitialized, embedderLoaded, cache, bnnVars, bnnDoc, calls,
                 cacheSrc, readyOnce>>

\* findSimilarChunks reading this.embeddings after the await instead of its
\* argument
QueryEmbeddedLive(t, ok) ==
  /\ task[t].pc = "qembed"
  /\ IF ok
     THEN Set(t, [task[t] EXCEPT
                    !.similar = TopChunks(embedder(task[t].query), task[t].sChunks,
                                          embeddings, task[t].topK),
                    !.pc = "filter"])
     ELSE Set(t, Thrown(task[t], "embedder failed"))
  /\ UNCHANGED <<ragVars, bnnVars, bnnDoc, calls, corpusDoc, cacheSrc,
                 readyOnce>>

\* findSimilarChunks: `await this.embedder(query, ...)` settles
QueryEmbedded(t, ok) ==
  /\ task[t].pc = "qembed"
  /\ IF ok
     THEN Set(t, [task[t] EXCEPT
                    !.similar = TopChunks(embedder(task[t].query), task[t].sChunks,
                                          task[t].sEmbeddings, task[t].topK),
                    !.pc = "filter"])
     ELSE Set(t, Thrown(task[t], "embedder failed"))
  /\ UNCHANGED <<ragVars, bnnVars, bnnDoc, calls, corpusDoc, cacheSrc,
                 readyOnce>>

\* searchKnowledge after `await this.findSimilarChunks(...)`
FilterAndCache(t) ==
  /\ task[t].pc = "filter"
  /\ LET finalChunks == FinalChunks(task[t].similar, task[t].query)
         cacheKey    == CacheKey(task[t].query)
     IN  /\ cache' = MapSet(cache, cacheKey, finalChunks)
         /\ cacheSrc' = MapSet(cacheSrc, cacheKey, task[t].sDoc)
         /\ Set(t, IF task[t].op = "bsearch"
                   THEN [task[t] EXCEPT !.pc = "tier", !.rag = finalChunks,
                                        !.sChunks = <<>>, !.sEmbeddings = <<>>,
                                        !.similar = <<>>]
                   ELSE Done([task[t] EXCEPT !.rag = finalChunks],
                             [kind |-> "list", list |-> finalChunks], ""))
  /\ UNCHANGED <<isInitialized, embedderLoaded, chunks, embeddings, bnnVars, bnnDoc,
                 calls, corpusDoc, readyOnce>>

\* ---------------------------------------------------- bnnService.js: search
\* searchBNNKnowledge is called: ragService.searchKnowledge(query, 5) runs
\* up to its first await
CallSearchBNNKnowledge(t, query) ==
  /\ Free(t)
  /\ Set(t, searchKnowledgeStart(
            [Fresh EXCEPT !.op = "bsearch", !.query = query, !.topK = SearchTopK],
            query, SearchTopK))
  /\ calls' = calls + 1
  /\ UNCHANGED <<ragVars, bnnVars, bnnDoc, corpusDoc, cacheSrc, readyOnce>>

\* searchBNNKnowledge after ragService.searchKnowledge has settled
SearchTail(t) ==
  /\ task[t].pc = "tier"
  /\ LET r == searchBNNKnowledgeTail(task[t].query, task[t].ragThrew, task[t].rag, bnnChunks)
     IN  Set(t, Done(task[t], [kind |-> "context", source |-> r.source,
                               chunks |-> r.chunks, context |-> r.context,
                               topSimilarity |-> r.topSimilarity, tiers |-> r.tiers,
                               scanHits |-> r.scanHits], ""))
  /\ UNCHANGED <<ragVars, bnnVars, bnnDoc, calls, corpusDoc, cacheSrc,
                 readyOnce>>

\* ------------------------------------- ragService.js called directly
CallProcessPDF(t, pdfPath) ==
  /\ Free(t)
  /\ Set(t, ragProcessPDFStart([Fresh EXCEPT !.op = "rprocess", !.path = pdfPath],
                             pdfPath))
  /\ calls' = calls + 1
  /\ UNCHANGED <<ragVars, bnnVars, bnnDoc, corpusDoc, cacheSrc, readyOnce>>

CallSearchKnowledge(t, query, topK) ==
  /\ Free(t)
  /\ Set(t, searchKnowledgeStart(
            [Fresh EXCEPT !.op = "rsearch", !.query = query, !.topK = topK],
            query, topK))
  /\ calls' = calls + 1
  /\ UNCHANGED <<ragVars, bnnVars, bnnDoc, corpusDoc, cacheSrc, readyOnce>>

clearCache(t) ==
  /\ Free(t)
  /\ cache' = EmptyMap
  /\ cacheSrc' = EmptyMap
  /\ Set(t, Done([Fresh EXCEPT !.op = "clear"], NoResult, ""))
  /\ calls' = calls + 1
  /\ UNCHANGED <<isInitialized, embedderLoaded, chunks, embeddings, bnnVars, bnnDoc,
                 corpusDoc, readyOnce>>

\* ------------------------------------------- bnnService.js: generation
GenTopK == 15          \* ragService.searchKnowledge(query, 15)
\* 'BNN astrology knowledge base'
DirectContext == <<"B","N","N"," ","a","s","t","r","o","l","o","g","y"," ",
                   "k","n","o","w","l","e","d","g","e"," ","b","a","s","e">>

\* generateBNNReading(question, kundliData) is called: isBNNPDFProcessed()
\* runs, its result is awaited
CallGenerateBNNReading(t, question) ==
  /\ Free(t)
  /\ Set(t, [Fresh EXCEPT !.op = "generate", !.outer = "generate", !.pc = "gen1",
                          !.query = question,
                          !.flag = (Len(chunks) > 0 \/ Len(bnnChunks) > 0)])
  /\ calls' = calls + 1
  /\ UNCHANGED <<ragVars, bnnVars, bnnDoc, corpusDoc, cacheSrc, readyOnce>>

\* after `await isBNNPDFProcessed()`: loadBNNPDF() up to its first await, or
\* searchBNNKnowledge(question, kundliData) up to its first await
GenAfterCheck(t) ==
  /\ task[t].pc = "gen1"
  /\ IF ~task[t].flag
     THEN Set(t, [task[t] EXCEPT !.op = "load", !.pc = "load1", !.late = readyOnce,
                                 !.flag = (Len(chunks) > 0 \/ Len(bnnChunks) > 0)])
     ELSE Set(t, searchKnowledgeStart(
                   [task[t] EXCEPT !.op = "bsearch", !.topK = GenTopK, !.flag = FALSE],
                   task[t].query, GenTopK))
  /\ UNCHANGED <<ragVars, bnnVars, bnnDoc, calls, corpusDoc, cacheSrc, readyOnce>>

\* after `await loadBNNPDF()`: searchBNNKnowledge up to its first await
GenSearch(t) ==
  /\ task[t].pc = "gen2"
  /\ Set(t, searchKnowledgeStart(
              [task[t] EXCEPT !.op = "bsearch", !.topK = GenTopK],
              task[t].query, GenTopK))
  /\ UNCHANGED <<ragVars, bnnVars, bnnDoc, calls, corpusDoc, cacheSrc, readyOnce>>

\* `await openai.chat.completions.create(...)` settles
GenerationSettles(t, ok) ==
  /\ task[t].pc = "gen3"
  /\ Set(t, IF ok
            THEN Returns(task[t], [kind |-> "reading",
                                   contextUsed |-> task[t].ctx.source,
                                   chunksUsed |-> task[t].ctx.chunks,
                                   contextLength |-> Len(task[t].ctx.context)], "")
            ELSE Returns(task[t], NoResult, "generation failed"))
  /\ UNCHANGED <<ragVars, bnnVars, bnnDoc, calls, corpusDoc, cacheSrc, readyOnce>>

\* generateBNNReading, GPT-direct variant, is called: the prompts are built
\* around a fixed context string and the completion is awaited
CallGenerateDirect(t, question) ==
  /\ Free(t)
  /\ Set(t, [Fresh EXCEPT !.op = "gdirect", !.pc = "gpt", !.query = question,
                          !.prompt = DirectContext])
  /\ calls' = calls + 1
  /\ UNCHANGED <<ragVars, bnnVars, bnnDoc, corpusDoc, cacheSrc, readyOnce>>

\* GPT-direct variant: `await getOpenAI().chat.completions.create(...)` settles
DirectSettles(t, ok) ==
  /\ task[t].pc = "gpt"
  /\ Set(t, IF ok
            THEN Returns(task[t], [kind |-> "reading", contextUsed |-> "gpt_direct",
                                   chunksUsed |-> 0, contextLength |-> 0], "")
            ELSE Returns(task[t], NoResult, "generation failed"))
  /\ UNCHANGED <<ragVars, bnnVars, bnnDoc, calls, corpusDoc, cacheSrc, readyOnce>>

\* ------------------------- ragService.js: ranking and filter on their own
MaxCorpus == 2         \* chunks of a corpus

\* chunk texts: one that names the query term capitalised, one without any
\* query term, one with a boilerplate marker, one shorter than 50 characters
RankTexts ==
  { <<"C","a","r","e","e","r"," ">> \o Rep(wLorem, 8),
    Rep(wIpsum, 9),
    wChapter \o <<" ">> \o wCareer \o <<" ">> \o Rep(wLorem, 7),
    wCareer \o <<" ">> \o wZzz }
\* embedding vectors of norm 25
RankVectors == { <<24, 7>>, <<0, 25>>, <<25, 0>> }
QueryVectors == { <<24, 7>>, <<0, 25>> }
RankTopKs == {1, 2}
\* the queries of the searches, and one whose only term has 2 characters
RankQueries == Queries \cup { <<"o","k">> }

RECURSIVE SeqsOf(_, _)
\* the sequences over S of length n
SeqsOf(S, n) ==
  IF n = 0 THEN {<<>>}
  ELSE {Append(q, x) : q \in SeqsOf(S, n - 1), x \in S}

\* findSimilarChunks(query, this.chunks, this.embeddings, topK) once the
\* query embedding has arrived, next to the variant without the floor
findSimilarChunks(t, queryVector, topK) ==
  /\ Idle(t)
  /\ Set(t, [Fresh EXCEPT !.op = "rank", !.pc = "done", !.topK = topK,
                          !.queryVector = queryVector,
                          !.similar = TopChunks(queryVector, chunks, embeddings, topK),
                          !.plain = TopChunksUnfiltered(queryVector, chunks, embeddings, topK)])
  /\ UNCHANGED <<ragVars, bnnVars, bnnDoc, calls, corpusDoc, cacheSrc, readyOnce>>

\* the filter and the mapping of searchKnowledge applied to that ranking
filterSimilarChunks(t, query) ==
  /\ task[t].op = "rank"
  /\ task[t].pc = "done"
  /\ Set(t, [task[t] EXCEPT !.op = "filter", !.query = query,
                            !.rag = FinalChunks(task[t].similar, query)])
  /\ UNCHANGED <<ragVars, bnnVars, bnnDoc, calls, corpusDoc, cacheSrc, readyOnce>>

\* --------------------------------- ragService.js: splitIntoChunks on its own
MaxIter == 20          \* iterations of the while loop that are followed

\* "Jupiter brings career growth. Saturn brings delay. (c)2024 Publisher."
TextJ == <<"J","u","p","i","t","e","r"," ","b","r","i","n","g","s"," ">> \o wCareer
         \o <<" ","g","r","o","w","t","h","."," ">>
         \o <<"S","a","t","u","r","n"," ","b","r","i","n","g","s"," ","d","e","l","a","y","."," ">>
         \o <<"(c)","2","0","2","4"," ","P","u","b","l","i","s","h","e","r",".">>
\* 510 characters without a sentence end, a period, 60 characters more
TextL == Rep(wLorem, 85) \o <<".">> \o Rep(wIpsum, 10)
\* 1200 characters without a sentence end
TextM == [i \in 1..1200 |-> wLorem[((i - 1) % 6) + 1]]
\* a title of 11 characters, 500 blanks, 120 characters of text
TextT == wSaturn \o <<" ">> \o <<"r","u","l","e">> \o Blanks(500) \o Rep(wIpsum, 20)
SplitTexts == {TextA, TextB, TextJ, TextL, TextM, TextT}
\* (maxChunkSize, overlap): the call of processPDF, the earlier call, small windows
SplitParams == { <<500, 100>>, <<1000, 200>>, <<40, 10>>, <<100, 20>> }

\* splitIntoChunks(text, maxChunkSize, overlap) before the first iteration
splitIntoChunksStart(text, maxChunkSize, overlap) ==
  [Fresh EXCEPT !.op = "split", !.pc = "loop", !.text = text,
                !.maxChunkSize = maxChunkSize, !.overlap = overlap, !.start = 0]

\* one iteration of the while loop
SplitIterate(t) ==
  /\ task[t].op = "split"
  /\ task[t].pc = "loop"
  /\ task[t].start < Len(task[t].text)
  /\ task[t].i < MaxIter
  /\ LET end   == SplitEnd(task[t].text, task[t].start, task[t].maxChunkSize)
         chunk == trim(substring(task[t].text, task[t].start, end))
     IN  Set(t, [task[t] EXCEPT
                   !.start = end - task[t].overlap,
                   !.texts = IF SplitKeeps(chunk) THEN Append(@, chunk) ELSE @,
                   !.windows = Append(@, [from |-> task[t].start, to |-> end,
                                          chunk |-> chunk, pushed |-> SplitKeeps(chunk)]),
                   !.i = @ + 1])
  /\ UNCHANGED <<ragVars, bnnVars, bnnDoc, calls, corpusDoc, cacheSrc, readyOnce>>

\* the loop is left: `return chunks`
SplitReturn(t) ==
  /\ task[t].op = "split"
  /\ task[t].pc = "loop"
  /\ ~(task[t].start < Len(task[t].text))
  /\ Set(t, [task[t] EXCEPT !.pc = "done",
                            !.result = [kind |-> "chunks", list |-> task[t].texts]])
  /\ UNCHANGED <<ragVars, bnnVars, bnnDoc, calls, corpusDoc, cacheSrc, readyOnce>>

\* ------------------------------------------------------------ status reads
\* LightweightRAGService.getStatus()
RagStatus ==
  [isInitialized |-> isInitialized, chunksLoaded |-> Len(chunks),
   embeddingsLoaded |-> Len(embeddings), cacheSize |-> Cardinality(DOMAIN cache)]

\* a status read that empties the cache on its way
getStatusClearing(t) ==
  /\ Idle(t)
  /\ Set(t, Done([Fresh EXCEPT !.op = "rstatus"], [kind |-> "ragStatus", status |-> RagStatus], ""))
  /\ cache' = EmptyMap
  /\ cacheSrc' = EmptyMap
  /\ UNCHANGED <<isInitialized, embedderLoaded, chunks, embeddings, bnnVars, bnnDoc,
                 calls, corpusDoc, readyOnce>>

\* getStatus() called: synchronous, returns at once.  A read is not counted
\* in `calls`
getStatus(t) ==
  /\ Idle(t)
  /\ Set(t, Done([Fresh EXCEPT !.op = "rstatus"], [kind |-> "ragStatus", status |-> RagStatus], ""))
  /\ UNCHANGED <<ragVars, bnnVars, bnnDoc, calls, corpusDoc, cacheSrc, readyOnce>>

\* getBNNServiceStatus() called (GET /api/bnn/status)
getBNNServiceStatus(t) ==
  /\ Idle(t)
  /\ Set(t, Done([Fresh EXCEPT !.op = "status"],
                 [kind |-> "bnnStatus", pdfProcessed |-> bnnPDFProcessed,
                  processingStatus |-> bnnProcessingStatus,
                  ragServiceStatus |-> RagStatus,
                  globalChunks |-> Len(bnnChunks),
                  globalEmbeddings |-> Len(bnnEmbeddings)], ""))
  /\ UNCHANGED <<ragVars, bnnVars, bnnDoc, calls, corpusDoc, cacheSrc, readyOnce>>

\* ------------------------------------------------------------ specifications
\* the service module: HTTP handlers call loadBNNPDF and searchBNNKnowledge
Next ==
  \E t \in Tasks :
    \/ CallLoadBNNPDF(t)
    \/ LoadAfterCheck(t)
    \/ BnnExtract(t)
    \/ Publish(t)
    \/ ProcessPDFCatch(t)
    \/ \E q \in Queries : CallSearchBNNKnowledge(t, q)
    \/ SearchTail(t)
    \/ \E ok \in BOOLEAN : InitializeDone(t, ok)
    \/ \E ok \in BOOLEAN : EmbedBatch(t, ok)
    \/ StoreCorpus(t)
    \/ \E ok \in BOOLEAN : QueryEmbedded(t, ok)
    \/ FilterAndCache(t)

Spec == Init /\ [][Next]_vars

\* the class on its own: any caller of LightweightRAGService
InitRAG == Init /\ bnnDoc = "N"

NextRAG ==
  \E t \in Tasks :
    \/ \E d \in DocIds : CallProcessPDF(t, d)
    \/ \E q \in Queries, k \in TopKs : CallSearchKnowledge(t, q, k)
    \/ clearCache(t)
    \/ \E ok \in BOOLEAN : InitializeDone(t, ok)
    \/ \E ok \in BOOLEAN : EmbedBatch(t, ok)
    \/ StoreCorpus(t)
    \/ \E ok \in BOOLEAN : QueryEmbedded(t, ok)
    \/ FilterAndCache(t)

SpecRAG == InitRAG /\ [][NextRAG]_vars

\* the service module with its generation entry point, in both variants
NextGen ==
  \/ Next
  \/ \E t \in Tasks, q \in Queries : CallGenerateBNNReading(t, q)
  \/ \E t \in Tasks : GenAfterCheck(t)
  \/ \E t \in Tasks : GenSearch(t)
  \/ \E t \in Tasks, ok \in BOOLEAN : GenerationSettles(t, ok)
  \/ \E t \in Tasks, q \in Queries : CallGenerateDirect(t, q)
  \/ \E t \in Tasks, ok \in BOOLEAN : DirectSettles(t, ok)

SpecGen == Init /\ [][NextGen]_vars

\* findSimilarChunks and the filter of searchKnowledge as functions of
\* their arguments: any corpus of at most MaxCorpus chunks
InitRank ==
  /\ isInitialized = TRUE
  /\ embedderLoaded = TRUE
  /\ \E n \in 0..MaxCorpus :
       /\ chunks \in SeqsOf(RankTexts, n)
       /\ embeddings \in SeqsOf(RankVectors, n)
  /\ cache = EmptyMap
  /\ bnnChunks = <<>>
  /\ bnnEmbeddings = <<>>
  /\ bnnPDFProcessed = FALSE
  /\ bnnProcessingStatus = InitialStatus
  /\ bnnDoc = "N"
  /\ task = [t \in Tasks |-> Fresh]
  /\ calls = 0
  /\ corpusDoc = ""
  /\ cacheSrc = EmptyMap
  /\ readyOnce = FALSE

NextRank ==
  \/ \E t \in Tasks, qv \in QueryVectors, k \in RankTopKs : findSimilarChunks(t, qv, k)
  \/ \E t \in Tasks, q \in RankQueries : filterSimilarChunks(t, q)

SpecRank == InitRank /\ [][NextRank]_vars

\* splitIntoChunks as a function of its arguments, iteration by iteration
InitSplit ==
  /\ isInitialized = FALSE
  /\ embedderLoaded = FALSE
  /\ chunks = <<>>
  /\ embeddings = <<>>
  /\ cache = EmptyMap
  /\ bnnChunks = <<>>
  /\ bnnEmbeddings = <<>>
  /\ bnnPDFProcessed = FALSE
  /\ bnnProcessingStatus = InitialStatus
  /\ bnnDoc = "N"
  /\ \E text \in SplitTexts, p \in SplitParams :
       task = [t \in Tasks |-> IF t = 1 THEN splitIntoChunksStart(text, p[1], p[2])
                                ELSE Fresh]
  /\ calls = 0
  /\ corpusDoc = ""
  /\ cacheSrc = EmptyMap
  /\ readyOnce = FALSE

NextSplit ==
  \/ \E t \in Tasks : SplitIterate(t)
  \/ \E t \in Tasks : SplitReturn(t)

SpecSplit == InitSplit /\ [][NextSplit]_vars

\* createEmbeddings as a function of its argument: lists of 0 to MaxTexts
\* texts, the model being loaded
MaxTexts == 21
EmbedWords == <<wCareer, wSaturn, wZzz, wLorem>>

InitEmbed ==
  /\ isInitialized = TRUE
  /\ embedderLoaded = TRUE
  /\ chunks = <<>>
  /\ embeddings = <<>>
  /\ cache = EmptyMap
  /\ bnnChunks = <<>>
  /\ bnnEmbeddings = <<>>
  /\ bnnPDFProcessed = FALSE
  /\ bnnProcessingStatus = InitialStatus
  /\ bnnDoc = "N"
  /\ \E n \in 0..MaxTexts, k \in 0..3 :
       task = [t \in Tasks |->
                 IF t = 1
                 THEN createEmbeddingsStart(
                        [Fresh EXCEPT !.op = "rprocess", !.path = "A"],
                        [i \in 1..n |-> EmbedWords[((i + k) % 4) + 1]])
                 ELSE Fresh]
  /\ calls = 0
  /\ corpusDoc = ""
  /\ cacheSrc = EmptyMap
  /\ readyOnce = FALSE

NextEmbed ==
  \/ \E t \in Tasks, ok \in BOOLEAN : EmbedBatch(t, ok)
  \/ \E t \in Tasks : StoreCorpus(t)

SpecEmbed == InitEmbed /\ [][NextEmbed]_vars

\* the service module with its status endpoint
NextStatus ==
  \/ Next
  \/ \E t \in Tasks : getStatus(t)
  \/ \E t \in Tasks : getBNNServiceStatus(t)

\* the document on disk is the one that yields a corpus
InitStatus == Init /\ bnnDoc = "A"

SpecStatus == InitStatus /\ [][NextStatus]_vars

\* ----------------------------------------------------------------- claims
\* the embeddings of a complete ingestion of each document
EmbedAll(texts) == SubSeq([i \in 1..Len(texts) |-> embedder(texts[i])], 1, Len(texts))
CorpusEmbeddings ==
  [d \in TextDocs |-> EmbedAll(CorpusChunks[d])] @@ EmptyMap

Returned(t, op) == task[t].op = op /\ task[t].pc = "done"

\* C1: every cache entry was computed from the corpus that is stored now: a
\* replacement of the corpus leaves no entry of the superseded corpus behind.
C1_CacheFromStoredCorpus ==
  \A k \in DOMAIN cache : cacheSrc[k] = corpusDoc

\* C2: a searchKnowledge(Q, topK) call answered from the cache, the corpus
\* being the one the entry was computed from, returns the list the same call
\* computes with an empty cache.
C2_CacheHitEqualsFresh ==
  \A t \in Tasks :
    (Returned(t, "rsearch") /\ task[t].hit /\ task[t].sDoc = corpusDoc)
      => task[t].result.list =
           FinalChunks(TopChunks(embedder(task[t].query), chunks, embeddings,
                                 task[t].topK), task[t].query)

\* C3: at most one loadBNNPDF call is inside ragService.processPDF at a time.
InPass(t) == task[t].op = "load" /\ task[t].pc \in {"init", "embed", "store"}
C3_OneIngestionPass ==
  Cardinality({t \in Tasks : InPass(t)}) <= 1

\* C4: a loadBNNPDF call issued after one has returned 'processed' never gets
\* past the already-processed check and returns 'already_processed'.
C4_RepeatedLoadIsNoOp ==
  \A t \in Tasks :
    (task[t].op = "load" /\ task[t].late)
      => /\ task[t].pc \in {"load1", "done"}
         /\ task[t].pc = "done" =>
              (task[t].err = "" /\ task[t].result.status = "already_processed")

\* C5: at most one run of initialize() is pending at a time.
C5_OneInitialization ==
  Cardinality({t \in Tasks : task[t].pc = "init"}) <= 1

TierOrder == <<"rag_service", "global_chunks", "basic_knowledge">>
TierRank(x) == CHOOSE n \in 1..3 : TierOrder[n] = x

\* C6: searchBNNKnowledge evaluates its tiers in the order indexed search,
\* keyword scan, static default, starting with the indexed search; a
\* non-empty indexed result ends the search there, and a keyword scan that
\* matched ends it before the static default.
C6_TierShortCircuit ==
  \A t \in Tasks :
    Returned(t, "bsearch") =>
      LET r == task[t].result
      IN  /\ r.tiers[1] = "rag_service"
          /\ \A a, b \in 1..Len(r.tiers) : a < b => TierRank(r.tiers[a]) < TierRank(r.tiers[b])
          /\ (~task[t].ragThrew /\ Len(task[t].rag) > 0) => r.tiers = <<"rag_service">>
          /\ r.scanHits > 0 => r.tiers = <<"rag_service", "global_chunks">>
          /\ r.source = r.tiers[Len(r.tiers)]

C6_Witness ==
  \E t \in Tasks :
    /\ Returned(t, "bsearch") /\ ~task[t].ragThrew /\ Len(task[t].rag) > 0
    /\ Len(ScanChunks(bnnChunks, task[t].query)) > 0
    /\ task[t].result.tiers = <<"rag_service">>

\* C7: the provenance tag names the tier that produced the context:
\* 'rag_service' only for a non-empty indexed result (chunks is its length,
\* context its contents joined), 'global_chunks' only when the indexed search
\* gave nothing or threw and the scan matched, 'basic_knowledge' only when
\* both gave nothing.
C7_ProvenanceTag ==
  \A t \in Tasks :
    Returned(t, "bsearch") =>
      LET r == task[t].result
          ragEmpty == task[t].ragThrew \/ Len(task[t].rag) = 0
      IN  /\ r.source \in {"rag_service", "global_chunks", "basic_knowledge"}
          /\ r.source = "rag_service" =>
               /\ ~ragEmpty
               /\ r.chunks = Len(task[t].rag)
               /\ r.context = join([k \in 1..Len(task[t].rag) |-> task[t].rag[k].content],
                                   ContextSeparator)
               /\ r.topSimilarity = task[t].rag[1].similarity
          /\ r.source = "global_chunks" =>
               ragEmpty /\ r.scanHits >= 1 /\ r.chunks = r.scanHits
          /\ r.source = "basic_knowledge" =>
               ragEmpty /\ r.scanHits = 0 /\ r.chunks = 0

C7_Witness ==
  \E t \in Tasks :
    /\ Returned(t, "bsearch") /\ task[t].result.source = "global_chunks"
    /\ ~task[t].ragThrew /\ Len(task[t].rag) = 0

\* C8: searchBNNKnowledge raises no error and returns a non-empty context in
\* every state of the engine; when it finishes before any corpus has been
\* stored, the result is the static default with chunks = 0 and
\* topSimilarity = 0.
C8_SearchNeverFails ==
  /\ [](\A t \in Tasks :
          Returned(t, "bsearch") =>
            /\ task[t].err = ""
            /\ task[t].result.kind = "context"
            /\ Len(task[t].result.context) > 0)
  /\ [][\A t \in Tasks :
          (task[t].op = "bsearch" /\ task'[t].pc = "done" /\ task[t].pc # "done"
           /\ corpusDoc = "")
            => /\ task'[t].result.source = "basic_knowledge"
               /\ task'[t].result.chunks = 0
               /\ task'[t].result.topSimilarity = 0]_vars

C8_Witness ==
  \E t \in Tasks :
    /\ Returned(t, "bsearch") /\ task[t].ragThrew
    /\ Len(chunks) > 0 /\ isInitialized
    /\ task[t].result.source = "global_chunks"

\* the entries come from one corpus version d: each pairs a chunk of d with
\* the similarity of the query to that chunk's own embedding
FromVersion(d, query, entries, Text(_)) ==
  \A k \in 1..Len(entries) :
    \E i \in 1..Len(CorpusChunks[d]) :
      /\ Text(entries[k]) = CorpusChunks[d][i]
      /\ entries[k].similarity = cosineSimilarity(embedder(query), CorpusEmbeddings[d][i])

ChunkOf(e) == e.chunk
ContentOf(e) == e.content

\* C9: whatever processPDF does meanwhile, a search works on the chunks and
\* embeddings of one corpus version, and what it ranks and returns pairs
\* each chunk with the similarity of that chunk's own embedding.
C9_OneSnapshot ==
  \A t \in Tasks :
    task[t].op = "rsearch" =>
      /\ task[t].pc \in {"init", "qembed"} =>
           \E d \in TextDocs : /\ task[t].sChunks = CorpusChunks[d]
                               /\ task[t].sEmbeddings = CorpusEmbeddings[d]
      /\ task[t].pc = "filter" =>
           \E d \in TextDocs : FromVersion(d, task[t].query, task[t].similar, ChunkOf)
      /\ (task[t].pc = "done" /\ task[t].err = "" /\ ~task[t].hit) =>
           \E d \in TextDocs : FromVersion(d, task[t].query, task[t].result.list, ContentOf)

\* a search that started on one corpus returned after the corpus was replaced
C9_Witness ==
  \E t \in Tasks :
    /\ Returned(t, "rsearch") /\ task[t].err = "" /\ ~task[t].hit
    /\ Len(task[t].result.list) > 0
    /\ task[t].sDoc # corpusDoc

\* C10: chunks and embeddings always have the same length, embeddings[i] is
\* the embedding of chunks[i], and the stored corpus is always the empty one
\* or the complete corpus of one document.
C10_CorpusAligned ==
  /\ Len(chunks) = Len(embeddings)
  /\ \A i \in 1..Len(chunks) : embeddings[i] = embedder(chunks[i])
  /\ \/ chunks = <<>> /\ embeddings = <<>>
     \/ \E d \in TextDocs : chunks = CorpusChunks[d] /\ embeddings = CorpusEmbeddings[d]

\* a corpus is stored while another ingestion is between its steps
C10_Witness ==
  \E t \in Tasks :
    /\ task[t].op = "rprocess" /\ task[t].pc \in {"embed", "store"}
    /\ Len(chunks) > 0 /\ task[t].path # corpusDoc

\* the four stored sequences of the corpus
corpus == <<chunks, embeddings, bnnChunks, bnnEmbeddings>>

\* handler t fails in this step
Fails(t) ==
  /\ task[t].pc \notin {"idle", "done"}
  /\ task'[t].pc = "done" /\ task'[t].err # ""

\* a failing ingestion assigns nothing: the corpus is assigned only by a
\* handler that has all its embeddings, and that handler returns without error
FailedIngestionAssignsNothing ==
  [][/\ \A t \in Tasks :
          (task[t].op = "load" /\ task[t].pc # "catch"
           /\ (Fails(t) \/ task'[t].pc = "catch"))
            => (corpus' = corpus)
     /\ (corpus' # corpus) =>
           (\E t \in Tasks :
              /\ task[t].pc \in {"store", "publish"}
              /\ task'[t].pc \in {"publish", "done"} /\ task'[t].err = "")
     /\ \A t \in Tasks :
           (task[t].pc = "publish" /\ task'[t] # task[t])
             => (task'[t].pc = "done" /\ task'[t].err = "")]_vars

\* what ragService holds after a complete ingestion of document d ("": none)
StoredChunks(d) == IF d \in TextDocs THEN CorpusChunks[d] ELSE <<>>
StoredEmbeddings(d) == IF d \in TextDocs THEN CorpusEmbeddings[d] ELSE <<>>

\* C11: when a loadBNNPDF call fails, the call returns the error, the status
\* is 'error' with the reason, and the stored corpus is the one that was
\* stored when the ingestion started (sDoc).
C11_FailedIngestionLeavesCorpus ==
  \A t \in Tasks :
    (Returned(t, "load") /\ task[t].err # "") =>
      /\ task[t].result = NoResult
      /\ bnnProcessingStatus.status = "error"
      /\ bnnProcessingStatus.error = task[t].err
      /\ chunks = StoredChunks(task[t].sDoc)
      /\ embeddings = StoredEmbeddings(task[t].sDoc)

\* an ingestion failed at a batch embedding while a corpus is stored
C11_Witness ==
  \E t \in Tasks :
    /\ Returned(t, "load") /\ task[t].err = "embedder failed"
    /\ bnnProcessingStatus.status = "error" /\ Len(bnnChunks) > 0

\* C12: an ingestion whose text is empty or whose segmentation keeps no chunk
\* does not end in the success status: 'processed' is reported, and
\* returned, only with at least one chunk.
C12_NoEmptySuccess ==
  /\ bnnProcessingStatus.status = "processed" => bnnProcessingStatus.chunks > 0
  /\ \A t \in Tasks :
       (Returned(t, "load") /\ task[t].err = "" /\ task[t].result.status = "processed")
         => task[t].result.chunks > 0

\* C13: searchBNNKnowledge returns provenance 'rag_service' only while the
\* ingestion status is 'processed'.
C13_IndexedOnlyWhenReady ==
  [][\A t \in Tasks :
       (task[t].op = "bsearch" /\ task[t].pc # "done" /\ task'[t].pc = "done"
        /\ task'[t].result.source = "rag_service")
         => bnnProcessingStatus.status = "processed"]_vars

\* the part of C13 about failure, for searches issued after an ingestion has
\* published its corpus: no indexed-tier result once the status is 'error'
C13_NotAfterError ==
  [][\A t \in Tasks :
       (task[t].op = "bsearch" /\ task[t].pc # "done" /\ task'[t].pc = "done"
        /\ task'[t].result.source = "rag_service" /\ bnnPDFProcessed)
         => bnnProcessingStatus.status # "error"]_vars

\* a status read returns in this step
StatusReturns(t) ==
  /\ task'[t].op \in {"status", "rstatus"}
  /\ task'[t].pc = "done"
  /\ task'[t] # task[t]

StatusOf(t) ==
  IF task[t].op = "status" THEN task[t].result.ragServiceStatus
  ELSE task[t].result.status

\* C14: a status read (getBNNServiceStatus, getStatus) changes nothing of the
\* service: the corpus, the cache, the initialization flags, the published
\* globals and the processing status are as before, no other handler is started
\* or moved, and the reported chunksLoaded, embeddingsLoaded and cacheSize are
\* the current numbers of chunks, embeddings and cache entries.
C14_StatusReadsOnly ==
  [][\A t \in Tasks : StatusReturns(t) =>
        /\ ragVars' = ragVars
        /\ bnnVars' = bnnVars
        /\ \A u \in Tasks \ {t} :
              \/ task'[u] = task[u]
              \/ task[u].pc = "done" /\ task'[u] = Fresh
        /\ task'[t].err = ""
        /\ LET st == IF task'[t].op = "status"
                     THEN task'[t].result.ragServiceStatus
                     ELSE task'[t].result.status
           IN /\ st.isInitialized = isInitialized'
              /\ st.chunksLoaded = Len(chunks')
              /\ st.embeddingsLoaded = Len(embeddings')
              /\ st.cacheSize = Cardinality(DOMAIN cache')
        /\ task'[t].op = "status" =>
              /\ task'[t].result.pdfProcessed = bnnPDFProcessed'
              /\ task'[t].result.processingStatus = bnnProcessingStatus'
              /\ task'[t].result.globalChunks = Len(bnnChunks')
              /\ task'[t].result.globalEmbeddings = Len(bnnEmbeddings')]_vars

\* a status was read while a corpus is stored, a cache entry exists and
\* another handler is in the middle of its work
C14_Witness ==
  \E t \in Tasks :
    /\ task[t].pc = "done"
    /\ task[t].op \in {"status", "rstatus"}
    /\ StatusOf(t).chunksLoaded = 2
    /\ StatusOf(t).cacheSize >= 1
    /\ \E u \in Tasks : task[u].pc \notin {"idle", "done"}

\* the class after a first processPDF("A") has returned: the model is loaded
\* and the corpus of document A is stored
InitCache ==
  /\ isInitialized = TRUE
  /\ embedderLoaded = TRUE
  /\ chunks = CorpusChunks["A"]
  /\ embeddings = CorpusEmbeddings["A"]
  /\ cache = EmptyMap
  /\ bnnChunks = <<>>
  /\ bnnEmbeddings = <<>>
  /\ bnnPDFProcessed = FALSE
  /\ bnnProcessingStatus = InitialStatus
  /\ bnnDoc = "N"
  /\ task = [t \in Tasks |-> Fresh]
  /\ calls = 0
  /\ corpusDoc = "A"
  /\ cacheSrc = EmptyMap
  /\ readyOnce = FALSE

NextCache ==
  \E t \in Tasks :
    \/ \E d \in DocIds : CallProcessPDF(t, d)
    \/ \E q \in Queries, k \in TopKs : CallSearchKnowledge(t, q, k)
    \/ clearCache(t)
    \/ \E ok \in BOOLEAN : EmbedBatch(t, ok)
    \/ StoreCorpus(t)
    \/ \E ok \in BOOLEAN : QueryEmbedded(t, ok)
    \/ FilterAndCache(t)

SpecCache == InitCache /\ [][NextCache]_vars

\* searchKnowledge is called by handler t in this step
SearchCalled(t) ==
  /\ Idle(t)
  /\ calls' = calls + 1
  /\ task'[t].op = "rsearch"

\* C15: a searchKnowledge call whose query, trimmed and lower-cased, is the
\* key of a stored cache entry returns the stored list at once: no query
\* embedding is computed and the cache is left as it is.
C15_NormalizedQueryHitsEntry ==
  [][\A t \in Tasks :
       (SearchCalled(t) /\ CacheKey(task'[t].query) \in DOMAIN cache) =>
          /\ task'[t].pc = "done"
          /\ task'[t].err = ""
          /\ task'[t].result = [kind |-> "list", list |-> cache[CacheKey(task'[t].query)]]
          /\ cache' = cache]_vars

\* C16: when the completion fails after searchBNNKnowledge has returned,
\* generateBNNReading rejects, and what it rejects with carries the provenance
\* tag, the number of chunks and the context length of that retrieval.
C16_GenerationFailureCarriesGrounding ==
  \A t \in Tasks :
    (Returned(t, "generate") /\ task[t].err = "generation failed") =>
      task[t].result = [kind |-> "error",
                        contextUsed |-> task[t].ctx.source,
                        chunksUsed |-> task[t].ctx.chunks,
                        contextLength |-> Len(task[t].ctx.context)]

\* C17: the metadata of a successful generateBNNReading call describes what
\* went into the prompt: contextLength is the length of the context string
\* of the prompt and, where a retrieval result was handed over, contextUsed
\* is its provenance tag and chunksUsed its number of chunks.
C17_MetadataDescribesPrompt ==
  \A t \in Tasks :
    (task[t].op \in {"generate", "gdirect"} /\ task[t].pc = "done" /\ task[t].err = "") =>
      /\ task[t].result.contextLength = Len(task[t].prompt)
      /\ task[t].ctx # NoResult =>
            /\ task[t].result.contextUsed = task[t].ctx.source
            /\ task[t].result.chunksUsed = task[t].ctx.chunks

Ranked(t) == task[t].op = "rank" /\ task[t].pc = "done"
Filtered(t) == task[t].op = "filter" /\ task[t].pc = "done"

\* C18: findSimilarChunks returns at most topK entries, each the similarity
\* of the query vector to a chunk of the corpus, in non-increasing order of
\* similarity, entries of equal similarity in increasing chunk-index order.
C18_RankingOrdered ==
  \A t \in Tasks : Ranked(t) =>
    LET r == task[t].similar
    IN  /\ Len(r) <= task[t].topK
        /\ \A i \in 1..Len(r) :
              /\ r[i].index \in 0..(Len(embeddings) - 1)
              /\ r[i].similarity =
                   cosineSimilarity(task[t].queryVector, embeddings[r[i].index + 1])
              /\ r[i].chunk = chunks[r[i].index + 1]
        /\ \A i \in 1..Len(r) : \A j \in (i + 1)..Len(r) :
              \/ r[i].similarity > r[j].similarity
              \/ r[i].similarity = r[j].similarity /\ r[i].index < r[j].index

\* a ranking of topK entries was returned in which two entries tie
C18_Witness ==
  \E t \in Tasks :
    /\ Ranked(t)
    /\ Len(task[t].similar) = task[t].topK
    /\ \E i \in 1..Len(task[t].similar) : \E j \in (i + 1)..Len(task[t].similar) :
          task[t].similar[i].similarity = task[t].similar[j].similarity

AboveFloor(list) == SelectSeq(list, LAMBDA e : 10 * e.similarity > 2 * Scale)

\* C19: the ranking with the early floor is the ranking without the floor
\* restricted to the entries whose similarity is above 0.2: the same entries
\* in the same order, up to topK.
C19_FloorKeepsOrder ==
  \A t \in Tasks : Ranked(t) =>
    /\ task[t].similar = AboveFloor(task[t].plain)
    /\ task[t].similar =
         slice(AboveFloor(TopChunksUnfiltered(task[t].queryVector, chunks, embeddings,
                                              Len(embeddings))),
               task[t].topK)

\* the floor dropped an entry that the ranking without the floor returns
C19_Witness ==
  \E t \in Tasks :
    /\ Ranked(t)
    /\ Len(task[t].similar) >= 1
    /\ Len(task[t].similar) < Len(task[t].plain)

\* the condition of the quality filter, in the words of the specification
MarkerFree(chunk) == \A b \in SearchBoilerplate : ~includes(chunk, b)
NamesQueryTerm(chunk, query) ==
  LET terms == split(query, " ")
  IN  \E k \in 1..Len(terms) :
        /\ Len(terms[k]) > 2
        /\ includes(toLowerCase(chunk), toLowerCase(terms[k]))
KeepsChunk(item, query) ==
  /\ MarkerFree(item.chunk)
  /\ Len(item.chunk) >= 50
  /\ (NamesQueryTerm(item.chunk, query) \/ 10 * item.similarity > 3 * Scale)

\* C20: the filter of searchKnowledge keeps a ranked chunk exactly when it
\* has no boilerplate marker, is at least 50 characters long and either names
\* a query term of more than 2 characters, whatever the case, or has a
\* similarity above 0.3; what a search that computed its result returns are
\* the first FinalCount chunks kept, in their order.
C20_FilterKeepsExactly ==
  \A t \in Tasks : Filtered(t) =>
    LET kept == SelectSeq(task[t].similar, LAMBDA item : KeepsChunk(item, task[t].query))
        out  == task[t].rag
    IN  /\ Len(out) = Min(Len(kept), FinalCount)
        /\ \A k \in 1..Len(out) :
              /\ out[k].content = kept[k].chunk
              /\ out[k].similarity = kept[k].similarity

\* the filter dropped one chunk and kept another for its query term alone,
\* written with a capital in the chunk
C20_Witness ==
  \E t \in Tasks :
    /\ Filtered(t)
    /\ Len(task[t].similar) = 2
    /\ Len(task[t].rag) = 1
    /\ 10 * task[t].rag[1].similarity <= 3 * Scale

\* C21: a list returned by searchKnowledge(query, topK) has at most FinalCount
\* and at most topK entries, in non-increasing order of similarity, each of
\* them a chunk that passes the quality filter for the query.
C21_ReturnedListBounded ==
  \A t \in Tasks :
    (Returned(t, "rsearch") /\ task[t].err = "") =>
      LET out == task[t].result.list
      IN  /\ Len(out) <= FinalCount
          /\ Len(out) <= task[t].topK
          /\ \A i \in 1..Len(out) : \A j \in (i + 1)..Len(out) :
                out[i].similarity >= out[j].similarity
          /\ \A i \in 1..Len(out) :
                KeepsChunk([chunk |-> out[i].content, similarity |-> out[i].similarity],
                           task[t].query)

\* C22: the relevance of every returned result is a ratio matched / total
\* with total, the number of query terms of more than 2 characters, at least
\* 1 and 0 <= matched <= total.
C22_RelevanceIsRatio ==
  \A t \in Tasks : Filtered(t) =>
    \A k \in 1..Len(task[t].rag) :
      /\ task[t].rag[k].relevance.total >= 1
      /\ task[t].rag[k].relevance.matched >= 0
      /\ task[t].rag[k].relevance.matched <= task[t].rag[k].relevance.total

SplitReturned(t) == task[t].op = "split" /\ task[t].pc = "done"

\* C23: every chunk splitIntoChunks returns is longer than MinChunkLen and at
\* most maxChunkSize long, and no window is cut beyond start + maxChunkSize.
C23_ChunkLengthBounded ==
  \A t \in Tasks :
    /\ task[t].op = "split" =>
         \A k \in 1..Len(task[t].windows) :
           task[t].windows[k].to <= task[t].windows[k].from + task[t].maxChunkSize
    /\ SplitReturned(t) =>
         \A k \in 1..Len(task[t].result.list) :
           /\ Len(task[t].result.list[k]) <= task[t].maxChunkSize
           /\ Len(task[t].result.list[k]) > MinChunkLen

\* the last n characters of a, the first n characters of b
LastChars(a, n) == SubSeq(a, Len(a) - n + 1, Len(a))
FirstChars(b, n) == SubSeq(b, 1, n)

\* C24: two adjacent chunks of the returned sequence, the later of which is
\* not the final chunk, share the overlap: the last `overlap` characters of
\* the earlier are the first `overlap` characters of the later.
C24_AdjacentChunksOverlap ==
  \A t \in Tasks : SplitReturned(t) =>
    LET list == task[t].result.list
    IN  \A k \in 1..(Len(list) - 2) :
          /\ Len(list[k]) >= task[t].overlap
          /\ Len(list[k + 1]) >= task[t].overlap
          /\ LastChars(list[k], task[t].overlap) = FirstChars(list[k + 1], task[t].overlap)

\* C25: every character of the text that is not white space lies in a window
\* whose chunk was returned, or in a window discarded for a boilerplate
\* signature.
C25_NoCharacterLost ==
  \A t \in Tasks : SplitReturned(t) =>
    \A c \in 1..Len(task[t].text) :
      task[t].text[c] \notin Whitespace =>
        \E k \in 1..Len(task[t].windows) :
          /\ task[t].windows[k].from < c
          /\ c <= task[t].windows[k].to
          /\ \/ task[t].windows[k].pushed
             \/ \E b \in SplitBoilerplate : includes(task[t].windows[k].chunk, b)

\* C28: from one iteration of the loop to the next the window start strictly
\* increases.
C28_StartIncreases ==
  [][\A t \in Tasks :
       (task[t].op = "split" /\ task'[t].i = task[t].i + 1)
         => task'[t].start > task[t].start]_vars

RECURSIVE createEmbeddingsOneByOne(_)
\* createEmbeddings of the variant that awaits the embedder text by text
createEmbeddingsOneByOne(texts) ==
  IF texts = <<>> THEN <<>>
  ELSE Append(createEmbeddingsOneByOne(SubSeq(texts, 1, Len(texts) - 1)),
              embedder(texts[Len(texts)]))

\* C26: the list createEmbeddings(texts) returns has the length of texts and
\* its i-th element is the embedding of texts[i]: it is the list the
\* text-by-text variant returns.
C26_BatchedEqualsOneByOne ==
  \A t \in Tasks :
    task[t].pc = "store" =>
      /\ Len(task[t].embs) = Len(task[t].texts)
      /\ task[t].embs = createEmbeddingsOneByOne(task[t].texts)

\* createEmbeddings has returned for a list that fills one batch and starts
\* another
C26_Witness ==
  \E t \in Tasks :
    /\ task[t].pc = "store"
    /\ Len(task[t].texts) = BatchSize + 1
    /\ Len(task[t].embs) = BatchSize + 1

\* the words of a query: what stands between its blanks
QueryWords(query) ==
  SelectSeq(split(toLowerCase(query), " "), LAMBDA term : Len(term) > 0)

NamesQueryWord(chunk, query) ==
  \E k \in 1..Len(QueryWords(query)) : includes(toLowerCase(chunk), QueryWords(query)[k])

\* C27: an answer of searchBNNKnowledge from the keyword scan holds, in stored
\* order, the first chunks (at most 10) of global.bnnChunks that contain a
\* word of the query without regard to case, and nothing else, with similarity
\* 0.5; when no stored chunk contains a word of the query the answer does not
\* come from the keyword scan.
C27_ScanNamesQueryWord ==
  \A t \in Tasks :
    Returned(t, "bsearch") /\ task[t].err = "" =>
      LET r == task[t].result
          hits == SelectSeq(bnnChunks, LAMBDA chunk : NamesQueryWord(chunk, task[t].query))
      IN  /\ r.source = "global_chunks" =>
               /\ r.context = join(slice(hits, ScanMax), ContextSeparator)
               /\ r.chunks = Len(slice(hits, ScanMax))
               /\ r.chunks <= ScanMax
               /\ r.topSimilarity = ScanSimilarity
          /\ Len(hits) = 0 => r.source # "global_chunks"

\* a loadBNNPDF call has begun and has not returned
IngestionInFlight ==
  \E t \in Tasks : task[t].op = "load" /\ task[t].pc \notin {"idle", "done"}

\* C29: in every state where no loadBNNPDF call is in flight and ragService
\* holds a non-empty corpus, bnnProcessingStatus.status is 'processed',
\* bnnPDFProcessed is true, and the status's chunks and embeddings equal
\* ragService's chunksLoaded and embeddingsLoaded.
C29_StatusDescribesCorpus ==
  (~IngestionInFlight /\ Len(chunks) > 0) =>
    /\ bnnProcessingStatus.status = "processed"
    /\ bnnPDFProcessed
    /\ bnnProcessingStatus.chunks = RagStatus.chunksLoaded
    /\ bnnProcessingStatus.embeddings = RagStatus.embeddingsLoaded

\* C29, second half: only a step of a loadBNNPDF call changes
\* bnnProcessingStatus or bnnPDFProcessed.
C29_StatusChangedByIngestionOnly ==
  [][ <<bnnProcessingStatus, bnnPDFProcessed>>' # <<bnnProcessingStatus, bnnPDFProcessed>>
        => \E t \in Tasks : task[t].op = "load" /\ task[t].pc \in {"load1", "load2", "publish", "catch"}
     ]_vars

\* C30: in every state where no loadBNNPDF call is in flight,
\* global.bnnChunks and global.bnnEmbeddings hold the sequences that
\* ragService.chunks and ragService.embeddings hold.
C30_FallbackStoreIsCorpus ==
  ~IngestionInFlight =>
    /\ bnnChunks = chunks
    /\ bnnEmbeddings = embeddings

\* two overlapping ingestions have ended, one published and the other failed
\* after it; a corpus is stored
C30_Witness ==
  /\ ~IngestionInFlight
  /\ Len(chunks) > 0
  /\ bnnChunks = chunks
  /\ bnnEmbeddings = embeddings
  /\ bnnProcessingStatus.status = "error"
====
